---- MODULE Spec2Model ----
(***************************************************************************)
(* Model of the kernel build/publish action: one execution of run(), the   *)
(* async function that resolves the inputs, installs Nix, sets up Cachix,  *)
(* builds or runs the kernel and then copies, uploads and publishes it.    *)
(*                                                                         *)
(* run() suspends only at its awaits.  A state of the model is the program *)
(* suspended at one await (pc names the collaborator being awaited, whose  *)
(* invocation is the last "exec"/"call" event of the trace); an action is  *)
(* the return of that collaborator followed by all the synchronous code up *)
(* to the next await, or up to the end of run().                           *)
(*                                                                         *)
(* The repository holds two revisions of the action.  The model follows    *)
(* the later one (nix-command, sandbox-mode, manual upload); the earlier   *)
(* one, src/index.ts, is the same pipeline in build mode without the       *)
(* target override, the manual upload and the no-result exit.              *)
(***************************************************************************)
EXTENDS Integers, Sequences, FiniteSets, TLC

VARIABLES
    raw,                \* the raw inputs, as core.getInput returns them
    inputs,             \* const inputs = getInputs()
    buildTarget,        \* let buildTarget
    needsManualUpload,  \* const needsManualUpload (as a boolean)
    resultExists,       \* fs.existsSync(resultPath) in buildKernel, once evaluated
    resultPath,         \* const resultPath = await buildKernel(...)
    kernelOutputPath,   \* const kernelOutputPath = await copyKernel(...)
    error,              \* the value caught by catch (error)
    pc,                 \* the await run() is suspended at, "start" or "done"
    running,            \* the invocations started and not yet settled (trace indices)
    trace               \* every effect of the run on its environment, in order

vars == <<raw, inputs, buildTarget, needsManualUpload, resultExists, resultPath,
          kernelOutputPath, error, pc, running, trace>>

----------------------------------------------------------------------------
(* Raw input values.  "" is an input that is absent or empty.              *)

NixCommandValues     == {"", "build", "run", "check"}
BuildTargetValues    == {"", "build-and-upload", "build-and-copy"}
KernelPathValues     == {""}
VerboseValues        == {"", "false"}
ArtifactNameValues   == {"", "mykernel"}
UploadArtifactValues == {"", "false"}
CachixNameValues     == {"", "mycache"}
CachixTokenValues    == {"", "cachix-secret"}
NixMaxJobsValues     == {""}
NixCoresValues       == {""}
SandboxModeValues    == {"", "relaxed"}
ExtraNixConfValues   == {""}
HfTokenValues        == {"", "hf-secret"}
HfRepoValues         == {"", "org/model"}
PublishValues        == {"", "true", "True"}

RawInputs ==
    [kernelPath : KernelPathValues, buildTarget : BuildTargetValues,
     nixCommand : NixCommandValues, verbose : VerboseValues,
     artifactName : ArtifactNameValues, uploadArtifact : UploadArtifactValues,
     cachixName : CachixNameValues, cachixAuthToken : CachixTokenValues,
     nixMaxJobs : NixMaxJobsValues, nixCores : NixCoresValues,
     sandboxMode : SandboxModeValues, extraNixConf : ExtraNixConfValues,
     hfToken : HfTokenValues, hfRepo : HfRepoValues, publish : PublishValues]

----------------------------------------------------------------------------
(* JavaScript helpers.                                                     *)

\* A string is truthy iff it is not empty.
Truthy(s) == s # ""

\* a || b on strings.
OrElse(a, b) == IF Truthy(a) THEN a ELSE b

\* path.resolve(p) in the working directory of the process.
Cwd == "/work"
Resolve(p) == IF p = "." THEN Cwd ELSE Cwd \o "/" \o p

Null == "null"
Undefined == "undefined"

----------------------------------------------------------------------------
(* getInputs                                                               *)

ResolveNixCommand(r) == OrElse(r.nixCommand, "build")

\* Variant: the validation is left out.
NixCommandUnchecked(nixCommand) == TRUE

NixCommandValid(nixCommand) == nixCommand = "build" \/ nixCommand = "run"

InvalidNixCommandMessage(nixCommand) ==
    "Invalid nix-command: " \o nixCommand \o ". Must be 'build' or 'run'."

ResolveCachixName(r) == OrElse(r.cachixName, "huggingface")

\* Variant: publish follows the opt-out convention of the other two flags.
GetInputsPublishOptOut(r) ==
    [kernelPath      |-> OrElse(r.kernelPath, "."),
     buildTarget     |-> OrElse(r.buildTarget, "ci"),
     nixCommand      |-> ResolveNixCommand(r),
     verbose         |-> r.verbose # "false",
     artifactName    |-> OrElse(r.artifactName, "kernel"),
     uploadArtifact  |-> r.uploadArtifact # "false",
     cachixName      |-> ResolveCachixName(r),
     cachixAuthToken |-> OrElse(r.cachixAuthToken, ""),
     nixMaxJobs      |-> OrElse(r.nixMaxJobs, "4"),
     nixCores        |-> OrElse(r.nixCores, "12"),
     sandboxMode     |-> OrElse(r.sandboxMode, "fallback"),
     extraNixConf    |-> OrElse(r.extraNixConf, ""),
     hfToken         |-> OrElse(r.hfToken, ""),
     hfRepo          |-> OrElse(r.hfRepo, ""),
     publish         |-> r.publish # "false"]

GetInputs(r) ==
    [kernelPath      |-> OrElse(r.kernelPath, "."),
     buildTarget     |-> OrElse(r.buildTarget, "ci"),
     nixCommand      |-> ResolveNixCommand(r),
     verbose         |-> r.verbose # "false",
     artifactName    |-> OrElse(r.artifactName, "kernel"),
     uploadArtifact  |-> r.uploadArtifact # "false",
     cachixName      |-> ResolveCachixName(r),
     cachixAuthToken |-> OrElse(r.cachixAuthToken, ""),
     nixMaxJobs      |-> OrElse(r.nixMaxJobs, "4"),
     nixCores        |-> OrElse(r.nixCores, "12"),
     sandboxMode     |-> OrElse(r.sandboxMode, "fallback"),
     extraNixConf    |-> OrElse(r.extraNixConf, ""),
     hfToken         |-> OrElse(r.hfToken, ""),
     hfRepo          |-> OrElse(r.hfRepo, ""),
     publish         |-> r.publish = "true"]

\* The value of `inputs` before getInputs has returned.
NoInputs ==
    [kernelPath |-> Undefined, buildTarget |-> Undefined, nixCommand |-> Undefined,
     verbose |-> FALSE, artifactName |-> Undefined, uploadArtifact |-> FALSE,
     cachixName |-> Undefined, cachixAuthToken |-> Undefined,
     nixMaxJobs |-> Undefined, nixCores |-> Undefined, sandboxMode |-> Undefined,
     extraNixConf |-> Undefined, hfToken |-> Undefined, hfRepo |-> Undefined,
     publish |-> FALSE]

----------------------------------------------------------------------------
(* Effects on the environment.                                             *)

Event(kind, name, args, opts) ==
    [kind |-> kind, name |-> name, args |-> args, opts |-> opts]

Exec(tool, args, opts) == Event("exec", tool, args, opts)
Call(fn, args)         == Event("call", fn, args, <<>>)
StartGroup(name)       == Event("startGroup", name, <<>>, <<>>)
EndGroup               == Event("endGroup", "", <<>>, <<>>)
AddPath(p)             == Event("addPath", p, <<>>, <<>>)
SetOutput(name, value) == Event("setOutput", name, <<value>>, <<>>)
Warning(msg)           == Event("warning", msg, <<>>, <<>>)
Info(msg)              == Event("info", msg, <<>>, <<>>)
SetFailed(msg)         == Event("setFailed", msg, <<>>, <<>>)

SuccessMessage == "Action completed successfully!"
PublishSkippedWarning ==
    "Publish requested but hf-token or hf-repo not provided. Skipping publish."

----------------------------------------------------------------------------
(* Errors.                                                                 *)

NoError == [isError |-> FALSE, message |-> Undefined]
ErrorOf(msg) == [isError |-> TRUE, message |-> msg]
\* A thrown value that is not an Error instance.
NonError == [isError |-> FALSE, message |-> "non-error"]

\* The message of the Error a failed collaborator rejects with.
FailureMessage(ev) ==
    IF ev.kind = "exec" THEN "The process '" \o ev.name \o "' failed with exit code 1"
    ELSE ev.name \o " failed"

GenericMessage == "An unexpected error occurred"

\* catch (error): the message handed to core.setFailed.
CatchMessage(err) == IF err.isError THEN err.message ELSE GenericMessage

----------------------------------------------------------------------------
(* run: target selection.                                                  *)

\* const needsManualUpload = inputs.hfRepo && inputs.buildTarget === 'build-and-upload'
NeedsManualUpload(in) == Truthy(in.hfRepo) /\ in.buildTarget = "build-and-upload"

\* Variant: the override of the target is left out.
EffectiveTargetNoOverride(requested, manual) == requested

\* let buildTarget, after the override
EffectiveTarget(requested, manual) ==
    IF manual THEN "build-and-copy" ELSE requested

----------------------------------------------------------------------------
(* installNix                                                              *)

\* Variant: the mode is written into the directive as given.
SandboxConfPassThrough(sandboxMode) == "sandbox = " \o sandboxMode

SandboxConf(sandboxMode) ==
    CASE sandboxMode = "relaxed" -> "sandbox = relaxed"
      [] sandboxMode = "true"    -> "sandbox = true"
      [] sandboxMode = "false"   -> "sandbox = false"
      [] OTHER                   -> "sandbox-fallback = false"

ExtraConf(maxJobs, cores, sandboxMode, extraNixConf) ==
    LET generated == "max-jobs = " \o maxJobs \o "\n"
                     \o "cores = " \o cores \o "\n"
                     \o SandboxConf(sandboxMode) \o "\n"
                     \o "experimental-features = nix-command flakes\n"
                     \o "trusted-users = root runner"
    IN  IF Truthy(extraNixConf) THEN generated \o "\n" \o extraNixConf
        ELSE generated

InstallerPath == "/tmp/nix-installer.sh"

CurlInstaller ==
    Exec("curl", <<"--proto", "=https", "--tlsv1.2", "-sSf", "-L",
                   "https://install.determinate.systems/nix", "-o", InstallerPath>>,
         <<>>)

RunInstaller(in) ==
    Exec("sh", <<InstallerPath, "install", "--no-confirm", "--extra-conf",
                 ExtraConf(in.nixMaxJobs, in.nixCores, in.sandboxMode,
                           in.extraNixConf)>>,
         <<>>)

nixProfilePath == "/nix/var/nix/profiles/default/bin"

----------------------------------------------------------------------------
(* setupCachix                                                             *)

\* if (!name) return
SkipCachix(name) == ~Truthy(name)

InstallCachix ==
    Exec("nix-env", <<"-iA", "cachix", "-f", "https://cachix.org/api/v1/install">>,
         <<>>)

nixUserProfilePath == "$HOME/.nix-profile/bin"

CachixAuthtoken(authToken) == Exec("cachix", <<"authtoken", authToken>>, <<>>)
CachixUse(name)            == Exec("cachix", <<"use", name>>, <<>>)

----------------------------------------------------------------------------
(* buildKernel                                                             *)

NixArgs(nixCommand, verbose, target) ==
    <<nixCommand>> \o (IF verbose THEN <<"-L">> ELSE <<>>) \o <<".#" \o target>>

NixOpts(kernelPath, hfRepo) ==
    <<"cwd=" \o Resolve(kernelPath)>>
        \o (IF Truthy(hfRepo) THEN <<"HF_REPO=" \o hfRepo>> ELSE <<>>)

RunNix(in, target) ==
    Exec("nix", NixArgs(in.nixCommand, in.verbose, target),
         NixOpts(in.kernelPath, in.hfRepo))

\* path.join(absoluteKernelPath, 'result')
ResultPathOf(kernelPath) == Resolve(kernelPath) \o "/result"

\* Variants: a missing result is an error in both modes, or in neither.
MissingResultAlwaysThrows(nixCommand) == TRUE
MissingResultNeverThrows(nixCommand) == FALSE

\* if (nixCommand === 'build') throw ...; otherwise return null
MissingResultThrows(nixCommand) == nixCommand = "build"

BuildResultMissingMessage(path) == "Build result not found at " \o path

BuildGroup(nixCommand) ==
    IF nixCommand = "build" THEN "Build Kernel" ELSE "Run Kernel"

----------------------------------------------------------------------------
(* copyKernel, uploadKernelArtifact, publishToHuggingFace,                 *)
(* uploadWithKernelsCli                                                    *)

\* Variant: the output directory is named after the artifact alone.
OutputPathWithoutSuffix(artifactName) == artifactName

OutputPathOf(artifactName) == artifactName \o "-output"

CopyResult(from, to) == Exec("cp", <<"-rL", from, to>>, <<>>)

GlobCreate(kernelOutput) == Call("glob.create", <<kernelOutput \o "/**/*">>)
GlobFiles                == Call("globber.glob", <<>>)
UploadArtifactCall(artifactName, kernelOutput) ==
    Call("uploadArtifact", <<artifactName, "files", kernelOutput>>)

PipInstall == Exec("pip", <<"install", "huggingface_hub">>, <<>>)

PythonScript(kernelOutput, hfRepo, hfToken) ==
    "api = HfApi(token=" \o hfToken \o "); api.upload_folder(folder_path="
        \o kernelOutput \o ", repo_id=" \o hfRepo \o ", repo_type=model)"

PythonPublish(kernelOutput, hfRepo, hfToken) ==
    Exec("python", <<"-c", PythonScript(kernelOutput, hfRepo, hfToken)>>, <<>>)

KernelsUpload(kernelPath, hfRepo) ==
    Exec("nix", <<"run", ".#kernels", "--", "upload", "--repo_id", hfRepo, ".">>,
         <<"cwd=" \o Resolve(kernelPath)>>)

----------------------------------------------------------------------------
(* run: the decisions between the stages.                                  *)

\* Variant: publish is attempted whenever it is requested.
PublishDecisionUnguarded(in) == IF in.publish THEN "publish" ELSE "skip"

\* if (inputs.publish && inputs.hfToken && inputs.hfRepo) ... else if (inputs.publish)
PublishDecision(in) ==
    IF in.publish /\ Truthy(in.hfToken) /\ Truthy(in.hfRepo) THEN "publish"
    ELSE IF in.publish THEN "warn"
    ELSE "skip"

\* A segment is the synchronous code between two awaits: the events it
\* produces and the await it stops at ("done" at the end of run).
Segment(events, at) == [events |-> events, at |-> at]

\* Variant: the manual-upload group is left open.
ManualUploadExitGroupOpen(in) ==
    <<SetOutput("kernel-path", ""),
      SetOutput("artifact-name", in.artifactName), Info(SuccessMessage)>>

\* The end of run() on each of its three successful exits.
ManualUploadExit(in) ==
    <<EndGroup, SetOutput("kernel-path", ""),
      SetOutput("artifact-name", in.artifactName), Info(SuccessMessage)>>

\* Variant: the early exit forgets the outputs.
NoResultExitWithoutOutputs(in) == <<Info(SuccessMessage)>>

NoResultExit(in) ==
    <<SetOutput("kernel-path", ""),
      SetOutput("artifact-name", in.artifactName), Info(SuccessMessage)>>

\* From the publish decision to the end of run or to the await of pip.
PublishSegment(in) ==
    CASE PublishDecision(in) = "publish" ->
            Segment(<<StartGroup("Publish to Hugging Face"), PipInstall>>, "pip")
      [] PublishDecision(in) = "warn" ->
            Segment(<<Warning(PublishSkippedWarning), Info(SuccessMessage)>>, "done")
      [] OTHER ->
            Segment(<<Info(SuccessMessage)>>, "done")

\* Variant: the publish decision is nested in the upload-artifact branch.
UploadSegmentPublishNested(in, kernelOutput) ==
    IF in.uploadArtifact
    THEN Segment(<<StartGroup("Upload Artifact"), GlobCreate(kernelOutput)>>,
                 "glob.create")
    ELSE Segment(<<Info(SuccessMessage)>>, "done")

\* From the end of the copy group to the next await.
UploadSegment(in, kernelOutput) ==
    IF in.uploadArtifact
    THEN Segment(<<StartGroup("Upload Artifact"), GlobCreate(kernelOutput)>>,
                 "glob.create")
    ELSE PublishSegment(in)

\* After copyKernel returned: the outputs are set inside the copy group.
AfterCopySegment(in, kernelOutput) ==
    LET rest == UploadSegment(in, kernelOutput)
    IN  Segment(<<SetOutput("kernel-path", kernelOutput),
                  SetOutput("artifact-name", in.artifactName), EndGroup>>
                    \o rest.events,
                rest.at)

\* From the start of the build group to the await of nix.
BuildSegment(in, target) ==
    Segment(<<StartGroup(BuildGroup(in.nixCommand)), RunNix(in, target)>>, "nix")

\* After buildKernel returned `result` (a path or null).
AfterBuildSegment(in, manual, result) ==
    IF manual
    THEN Segment(<<EndGroup, StartGroup("Upload to Kernel Hub"),
                   KernelsUpload(in.kernelPath, in.hfRepo)>>, "kernels upload")
    ELSE IF result = Null
    THEN Segment(<<EndGroup>> \o NoResultExit(in), "done")
    ELSE Segment(<<EndGroup, StartGroup("Copy Kernel"),
                   CopyResult(result, OutputPathOf(in.artifactName))>>, "cp")

\* Variant: the return after the manual upload is left out, so run() falls
\* through to the no-result check and the copy.
AfterManualUploadNoReturn(in, result) ==
    IF result = Null
    THEN Segment(ManualUploadExit(in) \o NoResultExit(in), "done")
    ELSE Segment(ManualUploadExit(in)
                    \o <<StartGroup("Copy Kernel"),
                         CopyResult(result, OutputPathOf(in.artifactName))>>, "cp")

\* After uploadWithKernelsCli returned: outputs, success message, return.
AfterManualUploadSegment(in, result) == Segment(ManualUploadExit(in), "done")

\* After installNix's installer returned: installNix ends and setupCachix
\* runs up to its first await, or returns at once.
AfterInstallSegment(in, target) ==
    LET head == <<AddPath(nixProfilePath), EndGroup, StartGroup("Setup Cachix")>>
    IN  IF SkipCachix(in.cachixName)
        THEN Segment(head \o <<EndGroup>> \o BuildSegment(in, target).events, "nix")
        ELSE Segment(head \o <<InstallCachix>>, "nix-env")

\* Variant: the user profile is not added to the search path.
AfterCachixInstallNoUserPath(in) ==
    IF Truthy(in.cachixAuthToken)
    THEN Segment(<<CachixAuthtoken(in.cachixAuthToken)>>, "cachix authtoken")
    ELSE Segment(<<CachixUse(in.cachixName)>>, "cachix use")

\* Variant: the cache is used without authenticating.
AfterCachixInstallNoAuth(in) ==
    Segment(<<AddPath(nixUserProfilePath), CachixUse(in.cachixName)>>, "cachix use")

\* After nix-env returned.
AfterCachixInstallSegment(in) ==
    IF Truthy(in.cachixAuthToken)
    THEN Segment(<<AddPath(nixUserProfilePath),
                   CachixAuthtoken(in.cachixAuthToken)>>, "cachix authtoken")
    ELSE Segment(<<AddPath(nixUserProfilePath), CachixUse(in.cachixName)>>,
                 "cachix use")

----------------------------------------------------------------------------
(* The state machine.                                                      *)

\* The locals of run() when it is called.
Fresh ==
    /\ inputs = NoInputs
    /\ buildTarget = Undefined
    /\ needsManualUpload = FALSE
    /\ resultExists = Undefined
    /\ resultPath = Undefined
    /\ kernelOutputPath = Undefined
    /\ error = NoError
    /\ pc = "start"
    /\ running = {}
    /\ trace = <<>>

Init == raw \in RawInputs /\ Fresh

\* The invocation run() is awaiting.
Awaited == trace[Len(trace)]

\* The invocation whose promise has settled when run() resumes: the awaited
\* one, since every exec and every library call is awaited.
SettledNone == {}
Settled == IF pc \in {"start", "done"} THEN {} ELSE {Len(trace)}

\* The invocations a segment starts, by their place in the trace.
Launched(seg) ==
    {Len(trace) + k : k \in {j \in 1..Len(seg.events) :
                                seg.events[j].kind \in {"exec", "call"}}}

\* Variant: the failure is reported but run() goes on with the next stage.
CatchAndGoOn(err) ==
    /\ error' = err
    /\ running' = running \ Settled
    /\ trace' = Append(trace, SetFailed(IF err.isError THEN err.message
                                        ELSE GenericMessage))
    /\ pc' = pc

\* Variant: a failed invocation is started again.
CatchAndRetry(err) ==
    /\ error' = err
    /\ running' = running
    /\ trace' = IF pc = "start"
                THEN Append(trace, SetFailed(IF err.isError THEN err.message
                                             ELSE GenericMessage))
                ELSE Append(trace, trace[Len(trace)])
    /\ pc' = IF pc = "start" THEN "done" ELSE pc

\* Variant: the caught error is swallowed without a failure signal.
CatchSilently(err) ==
    /\ error' = err
    /\ running' = running \ Settled
    /\ trace' = trace
    /\ pc' = "done"

\* catch (error) { core.setFailed(...) }
Catch(err) ==
    /\ error' = err
    /\ running' = running \ Settled
    /\ trace' = Append(trace, SetFailed(CatchMessage(err)))
    /\ pc' = "done"

\* The awaited collaborator rejects, with an Error or with some other value.
Rejected ==
    /\ \E err \in {ErrorOf(FailureMessage(Awaited)), NonError} : Catch(err)
    /\ UNCHANGED <<raw, inputs, buildTarget, needsManualUpload, resultExists,
                   resultPath, kernelOutputPath>>

\* The synchronous code runs segment seg.
Continue(seg) ==
    /\ trace' = trace \o seg.events
    /\ running' = (running \ Settled) \cup Launched(seg)
    /\ pc' = seg.at
    /\ error' = error

\* run() from its call to the await of curl, or to the catch when getInputs throws.
Start ==
    /\ pc = "start"
    /\ LET nixCommand == ResolveNixCommand(raw)
           in == GetInputs(raw)
           manual == NeedsManualUpload(in)
       IN  IF ~NixCommandValid(nixCommand)
           THEN /\ Catch(ErrorOf(InvalidNixCommandMessage(nixCommand)))
                /\ UNCHANGED <<inputs, buildTarget, needsManualUpload>>
           ELSE /\ inputs' = in
                /\ needsManualUpload' = manual
                /\ buildTarget' = EffectiveTarget(in.buildTarget, manual)
                /\ Continue(Segment(<<StartGroup("Install Nix"), CurlInstaller>>,
                                    "curl"))
    /\ UNCHANGED <<raw, resultExists, resultPath, kernelOutputPath>>

Locals == <<raw, inputs, buildTarget, needsManualUpload, resultExists, resultPath,
            kernelOutputPath>>

AfterCurl ==
    /\ pc = "curl"
    /\ \/ Rejected
       \/ /\ Continue(Segment(<<RunInstaller(inputs)>>, "sh"))
          /\ UNCHANGED Locals

AfterInstaller ==
    /\ pc = "sh"
    /\ \/ Rejected
       \/ /\ Continue(AfterInstallSegment(inputs, buildTarget))
          /\ UNCHANGED Locals

AfterCachixInstall ==
    /\ pc = "nix-env"
    /\ \/ Rejected
       \/ /\ Continue(AfterCachixInstallSegment(inputs))
          /\ UNCHANGED Locals

AfterCachixAuthtoken ==
    /\ pc = "cachix authtoken"
    /\ \/ Rejected
       \/ /\ Continue(Segment(<<CachixUse(inputs.cachixName)>>, "cachix use"))
          /\ UNCHANGED Locals

AfterCachixUse ==
    /\ pc = "cachix use"
    /\ \/ Rejected
       \/ /\ Continue(Segment(<<EndGroup>> \o BuildSegment(inputs, buildTarget).events,
                              "nix"))
          /\ UNCHANGED Locals

\* nix returned: buildKernel looks for the result with fs.existsSync.
AfterNix ==
    /\ pc = "nix"
    /\ \/ Rejected
       \/ \E exists \in BOOLEAN :
            LET path == ResultPathOf(inputs.kernelPath)
                result == IF exists THEN path ELSE Null
            IN  /\ resultExists' = IF exists THEN "yes" ELSE "no"
                /\ IF ~exists /\ MissingResultThrows(inputs.nixCommand)
                   THEN /\ Catch(ErrorOf(BuildResultMissingMessage(path)))
                        /\ UNCHANGED <<raw, inputs, buildTarget, needsManualUpload,
                                       resultPath, kernelOutputPath>>
                   ELSE /\ resultPath' = result
                        /\ Continue(AfterBuildSegment(inputs, needsManualUpload,
                                                      result))
                        /\ UNCHANGED <<raw, inputs, buildTarget, needsManualUpload,
                                       kernelOutputPath>>

AfterKernelsUpload ==
    /\ pc = "kernels upload"
    /\ \/ Rejected
       \/ /\ Continue(AfterManualUploadSegment(inputs, resultPath))
          /\ UNCHANGED Locals

AfterCopy ==
    /\ pc = "cp"
    /\ \/ Rejected
       \/ LET out == OutputPathOf(inputs.artifactName)
          IN  /\ kernelOutputPath' = out
              /\ Continue(AfterCopySegment(inputs, out))
              /\ UNCHANGED <<raw, inputs, buildTarget, needsManualUpload,
                             resultExists, resultPath>>

AfterGlobCreate ==
    /\ pc = "glob.create"
    /\ \/ Rejected
       \/ /\ Continue(Segment(<<GlobFiles>>, "globber.glob"))
          /\ UNCHANGED Locals

AfterGlob ==
    /\ pc = "globber.glob"
    /\ \/ Rejected
       \/ /\ Continue(Segment(<<UploadArtifactCall(inputs.artifactName,
                                                   kernelOutputPath)>>,
                              "uploadArtifact"))
          /\ UNCHANGED Locals

AfterUploadArtifact ==
    /\ pc = "uploadArtifact"
    /\ \/ Rejected
       \/ LET rest == PublishSegment(inputs)
          IN  /\ Continue(Segment(<<EndGroup>> \o rest.events, rest.at))
              /\ UNCHANGED Locals

AfterPip ==
    /\ pc = "pip"
    /\ \/ Rejected
       \/ /\ Continue(Segment(<<PythonPublish(kernelOutputPath, inputs.hfRepo,
                                              inputs.hfToken)>>, "python"))
          /\ UNCHANGED Locals

AfterPython ==
    /\ pc = "python"
    /\ \/ Rejected
       \/ /\ Continue(Segment(<<EndGroup, Info(SuccessMessage)>>, "done"))
          /\ UNCHANGED Locals

Next ==
    \/ Start
    \/ AfterCurl
    \/ AfterInstaller
    \/ AfterCachixInstall
    \/ AfterCachixAuthtoken
    \/ AfterCachixUse
    \/ AfterNix
    \/ AfterKernelsUpload
    \/ AfterCopy
    \/ AfterGlobCreate
    \/ AfterGlob
    \/ AfterUploadArtifact
    \/ AfterPip
    \/ AfterPython

Spec == Init /\ [][Next]_vars

\* Every awaited collaborator eventually settles, so the step that resumes
\* run() is eventually taken.
FairSpec == Spec /\ WF_vars(Next)

----------------------------------------------------------------------------
(* The installer stage alone, over every kind of installer configuration:  *)
(* run() from its start to the invocation of the installer.                *)

InstallSandboxModes == {"", "relaxed", "true", "false", "fallback", "strict"}
InstallExtraConfs   == {"", "keep-going = true"}
InstallMaxJobs      == {"", "8"}
InstallCores        == {"", "2"}

InstallInputs ==
    [kernelPath : {""}, buildTarget : {""}, nixCommand : {"", "run"},
     verbose : {""}, artifactName : {""}, uploadArtifact : {""},
     cachixName : {""}, cachixAuthToken : {""},
     nixMaxJobs : InstallMaxJobs, nixCores : InstallCores,
     sandboxMode : InstallSandboxModes, extraNixConf : InstallExtraConfs,
     hfToken : {""}, hfRepo : {""}, publish : {""}]

InitInstall == raw \in InstallInputs /\ Fresh

NextInstall == Start \/ AfterCurl

SpecInstall == InitInstall /\ [][NextInstall]_vars

----------------------------------------------------------------------------
(* getInputs alone, as run() calls it: every value of the three flags, and *)
(* every string input empty and not empty.                                 *)

FlagValues == {"", "false", "False", "0", "true", "True"}

FlagInputs ==
    [kernelPath : {""}, buildTarget : {""}, nixCommand : {"", "run"},
     verbose : FlagValues, artifactName : {""}, uploadArtifact : FlagValues,
     cachixName : {""}, cachixAuthToken : {""}, nixMaxJobs : {""},
     nixCores : {""}, sandboxMode : {""}, extraNixConf : {""},
     hfToken : {""}, hfRepo : {""}, publish : FlagValues]

StringInputs ==
    [kernelPath : {"", "kernels/relu"}, buildTarget : {"", "ci", "build-and-upload"},
     nixCommand : {"", "build", "run", "check"}, verbose : {""},
     artifactName : {"", "mykernel"}, uploadArtifact : {""},
     cachixName : {"", "mycache"}, cachixAuthToken : {"", "cachix-secret"},
     nixMaxJobs : {"", "8"}, nixCores : {"", "2"},
     sandboxMode : {"", "fallback", "relaxed"}, extraNixConf : {"", "keep-going = true"},
     hfToken : {"", "hf-secret"}, hfRepo : {"", "org/model"}, publish : {""}]

InitGetInputs == raw \in FlagInputs \cup StringInputs /\ Fresh

NextGetInputs == Start

SpecGetInputs == InitGetInputs /\ [][NextGetInputs]_vars

----------------------------------------------------------------------------
(* Observations of a run, read off the trace and the raw inputs.           *)

Indices == 1..Len(trace)

IsInvocation(e) == e.kind \in {"exec", "call"}
IsOutput(e, name) == e.kind = "setOutput" /\ e.name = name

Invocations == SelectSeq(trace, IsInvocation)
Outputs == SelectSeq(trace, LAMBDA e : e.kind = "setOutput")
OutputCount(name) == Cardinality({i \in Indices : IsOutput(trace[i], name)})

Failed == \E i \in Indices : trace[i].kind = "setFailed"
Succeeded == \E i \in Indices : trace[i] = Info(SuccessMessage)
Finished == pc = "done"

IsManualUpload(e) ==
    e.kind = "exec" /\ e.name = "nix" /\ Len(e.args) = 7 /\ e.args[4] = "upload"
IsBuildTool(e) == e.kind = "exec" /\ e.name = "nix" /\ ~IsManualUpload(e)
IsCopy(e) == e.kind = "exec" /\ e.name = "cp"
IsArtifactUpload(e) ==
    e.kind = "call" /\ e.name \in {"glob.create", "globber.glob", "uploadArtifact"}
IsHubPublish(e) == e.kind = "exec" /\ e.name \in {"pip", "python"}
IsCacheSetup(e) == e.kind = "exec" /\ e.name \in {"nix-env", "cachix"}
IsPublishWarning(e) == e.kind = "warning"

Occurs(P(_)) == \E i \in Indices : P(trace[i])

\* The last external invocation of the run so far.
LastInvocation == Invocations[Len(Invocations)]

\* The configuration, read from the raw inputs.
RawModeInvalid == raw.nixCommand \notin {"", "build", "run"}
RawBuildMode == raw.nixCommand \in {"", "build"}
RawRunMode == raw.nixCommand = "run"
RawManualUpload == raw.hfRepo # "" /\ raw.buildTarget = "build-and-upload"
RawRequestedTarget == IF raw.buildTarget = "" THEN "ci" ELSE raw.buildTarget
RawArtifactName == IF raw.artifactName = "" THEN "kernel" ELSE raw.artifactName
RawPublishIncomplete == raw.publish = "true" /\ (raw.hfToken = "" \/ raw.hfRepo = "")

EmptyPathOutputs ==
    <<SetOutput("kernel-path", ""), SetOutput("artifact-name", RawArtifactName)>>

----------------------------------------------------------------------------
(* C1: a non-empty nix-command other than 'build' and 'run' ends the run   *)
(* in setFailed with the validation message, with no external invocation   *)
(* and no output set; an empty nix-command resolves to 'build' and the run *)
(* goes on to the installer.                                               *)
C1_InvalidModeFailsBeforeAnyInvocation ==
    /\ RawModeInvalid /\ pc # "start" =>
          /\ pc = "done"
          /\ trace = <<SetFailed("Invalid nix-command: " \o raw.nixCommand
                                   \o ". Must be 'build' or 'run'.")>>
    /\ raw.nixCommand = "" /\ pc # "start" =>
          /\ inputs.nixCommand = "build"
          /\ trace[1] = StartGroup("Install Nix")
          /\ trace[2].kind = "exec" /\ trace[2].name = "curl"

C1_Witness == raw.nixCommand = "check" /\ pc = "done" /\ Failed

(* C2: once a stage has failed, the run is over: the failure signal is the *)
(* last event, it directly follows the invocation that failed (or is the   *)
(* only event, for a validation failure), it carries the message of that   *)
(* failure, or the generic message for a value that is not an Error, and   *)
(* it is the only failure signal.                                          *)
C2_AbortOnFirstFailure ==
    error # NoError =>
        /\ pc = "done"
        /\ trace[Len(trace)] =
              SetFailed(IF error.isError THEN error.message
                        ELSE "An unexpected error occurred")
        /\ Cardinality({i \in Indices : trace[i].kind = "setFailed"}) = 1
        /\ ~Succeeded
        /\ Len(trace) > 1 =>
              /\ IsInvocation(trace[Len(trace) - 1])
              /\ error.isError =>
                    error.message \in
                        {FailureMessage(trace[Len(trace) - 1]),
                         "Build result not found at /work/result"}

C2_Witness ==
    /\ pc = "done" /\ error.isError
    /\ Len(Invocations) > 0 /\ IsCopy(LastInvocation)
    /\ trace[Len(trace)] = SetFailed("The process 'cp' failed with exit code 1")

(* C3: in every run that ends in the failure state neither output has been *)
(* set.                                                                    *)
C3_NoOutputsOnFailure ==
    Failed => OutputCount("kernel-path") = 0 /\ OutputCount("artifact-name") = 0

(* C4: with hf-repo set and build-target 'build-and-upload' the build tool *)
(* is given 'build-and-copy', the manual upload is invoked with the given  *)
(* hf-repo as soon as the build stage has returned, and a successful run   *)
(* has outputs kernel-path "" and the configured artifact name; in every   *)
(* other configuration the build tool is given the requested target and    *)
(* the manual upload is never invoked.                                     *)
C4_ManualUploadTarget ==
    /\ \A i \in Indices :
          IsBuildTool(trace[i]) =>
              trace[i].args[Len(trace[i].args)] =
                  IF RawManualUpload THEN ".#build-and-copy"
                  ELSE ".#" \o RawRequestedTarget
    /\ \A i \in Indices :
          IsManualUpload(trace[i]) =>
              RawManualUpload /\ trace[i].args[6] = raw.hfRepo
    /\ RawManualUpload /\ resultPath # Undefined => Occurs(IsManualUpload)
    /\ RawManualUpload /\ Succeeded => Outputs = EmptyPathOutputs

C4_Witness ==
    /\ RawManualUpload /\ Succeeded
    /\ Occurs(IsManualUpload) /\ Occurs(IsBuildTool)

(* C5: when manual upload is required, the copy, the artifact upload and   *)
(* the hub publish are never invoked and no warning is issued; what        *)
(* follows the manual upload is nothing (it is running), the failure       *)
(* signal, or the end of its group, the two outputs and the success        *)
(* message.                                                                *)
C5_ManualUploadEndsRun ==
    RawManualUpload =>
        /\ ~Occurs(IsCopy) /\ ~Occurs(IsArtifactUpload) /\ ~Occurs(IsHubPublish)
        /\ ~Occurs(IsPublishWarning)
        /\ \A i \in Indices :
              IsManualUpload(trace[i]) =>
                  \/ i = Len(trace) /\ pc = "kernels upload"
                  \/ i + 1 = Len(trace) /\ trace[i + 1].kind = "setFailed"
                  \/ /\ SubSeq(trace, i + 1, Len(trace)) =
                            <<EndGroup>> \o EmptyPathOutputs
                                \o <<Info(SuccessMessage)>>
                     /\ pc = "done"

C5_Witness ==
    /\ RawManualUpload /\ Succeeded /\ resultExists = "yes"
    /\ raw.publish = "true" /\ raw.uploadArtifact = "" /\ raw.hfToken # ""

(* C6 as stated: in run mode, for every configuration, a build that        *)
(* succeeds without leaving a result is followed by no external invocation *)
(* and the run ends in success with kernel-path "".                        *)
C6_RunModeNoResultAnyConfiguration ==
    RawRunMode /\ resultExists = "no" =>
        /\ IsBuildTool(LastInvocation)
        /\ pc = "done" /\ Succeeded /\ ~Failed
        /\ Outputs = EmptyPathOutputs

(* C6, amended: the same for every configuration that does not require     *)
(* manual upload.                                                          *)
C6_RunModeNoResultShortCircuits ==
    RawRunMode /\ ~RawManualUpload /\ resultExists = "no" =>
        /\ IsBuildTool(LastInvocation)
        /\ pc = "done" /\ Succeeded /\ ~Failed
        /\ Outputs = EmptyPathOutputs
        /\ trace[Len(trace)] = Info(SuccessMessage)

C6_Witness ==
    /\ RawRunMode /\ ~RawManualUpload /\ resultExists = "no" /\ Succeeded
    /\ raw.publish = "true" /\ raw.uploadArtifact = ""

(* C7: in build mode, in every configuration, a build that returns without *)
(* leaving a result ends the run in failure with 'Build result not found', *)
(* and no copy, artifact upload, hub publish or manual upload is invoked.  *)
C7_BuildModeMissingResultFails ==
    RawBuildMode /\ resultExists = "no" =>
        /\ pc = "done" /\ Failed /\ ~Succeeded
        /\ trace[Len(trace)] = SetFailed("Build result not found at /work/result")
        /\ IsBuildTool(LastInvocation)
        /\ ~Occurs(IsCopy) /\ ~Occurs(IsArtifactUpload)
        /\ ~Occurs(IsHubPublish) /\ ~Occurs(IsManualUpload)

C7_Witness == RawBuildMode /\ RawManualUpload /\ resultExists = "no" /\ Failed

(* C8 as stated: with publish enabled and hf-token or hf-repo empty, the   *)
(* hub publish is never invoked and every run that ends without a failure  *)
(* has issued the warning and ends in success.                             *)
C8_WarningOnEveryRun ==
    RawPublishIncomplete =>
        /\ ~Occurs(IsHubPublish)
        /\ pc = "done" /\ ~Failed => Occurs(IsPublishWarning) /\ Succeeded

(* C8, amended: the hub publish is never invoked; the warning is issued    *)
(* exactly on the runs that reach the publish decision (the copy and, if   *)
(* enabled, the artifact upload succeeded), at most once, and such a run   *)
(* ends in success; a run that ends without a failure ends in success.     *)
C8_IncompleteCredentialsNotFatal ==
    RawPublishIncomplete =>
        /\ ~Occurs(IsHubPublish)
        /\ Cardinality({i \in Indices : IsPublishWarning(trace[i])}) <= 1
        /\ Occurs(IsPublishWarning) =>
              /\ trace[Len(trace) - 1] = Warning(PublishSkippedWarning)
              /\ trace[Len(trace)] = Info(SuccessMessage)
              /\ pc = "done" /\ ~Failed
              /\ Occurs(IsCopy)
        /\ pc = "done" /\ ~Failed =>
              /\ Succeeded
              /\ Occurs(IsPublishWarning) <=> Occurs(IsCopy)

C8_Witness ==
    /\ RawPublishIncomplete /\ raw.hfToken = "" /\ raw.hfRepo # ""
    /\ Occurs(IsPublishWarning) /\ Succeeded /\ Occurs(IsArtifactUpload)

(* C9: a run whose cachix-name input is empty or absent makes no           *)
(* cache-configuration call.                                               *)
C9_EmptyCacheNameSkipsCachix ==
    raw.cachixName = "" => ~Occurs(IsCacheSetup)

(* C10 as stated: at the end of every run, on every path, each of the two  *)
(* outputs has been set exactly once.                                      *)
C10_OutputsExactlyOnceOnEveryRun ==
    pc = "done" =>
        OutputCount("kernel-path") = 1 /\ OutputCount("artifact-name") = 1

(* C10, amended: each of the two outputs is set at most once in a run, and *)
(* exactly once in every run that ends in success.                         *)
C10_OutputsAtMostOnceAndOnceOnSuccess ==
    /\ OutputCount("kernel-path") <= 1 /\ OutputCount("artifact-name") <= 1
    /\ Len(Outputs) \in {0, 2}
    /\ Succeeded =>
          OutputCount("kernel-path") = 1 /\ OutputCount("artifact-name") = 1

C10_Witness ==
    /\ Succeeded /\ RawRunMode /\ resultExists = "no" /\ ~RawManualUpload
    /\ Len(Outputs) = 2

(* C11: on the normal path the copy is invoked with the result path as its  *)
(* source and '<artifactName>-output' as its destination; once it has       *)
(* returned, the outputs are kernel-path = '<artifactName>-output' and      *)
(* artifact-name = artifactName ('kernel' when the input is empty); with    *)
(* the default target in build mode a run in which no stage fails ends in   *)
(* success with these outputs.                                              *)
NormalPathOutputs ==
    <<SetOutput("kernel-path", RawArtifactName \o "-output"),
      SetOutput("artifact-name", RawArtifactName)>>

C11_NormalPathOutputs ==
    /\ \A i \in Indices :
          IsCopy(trace[i]) =>
              /\ ~RawManualUpload /\ resultExists = "yes"
              /\ trace[i].args = <<"-rL", "/work/result", RawArtifactName \o "-output">>
    /\ kernelOutputPath # Undefined => Outputs = NormalPathOutputs
    /\ Occurs(IsCopy) /\ kernelOutputPath = Undefined => Outputs = <<>>
    /\ raw.buildTarget = "" /\ RawBuildMode /\ Finished /\ error = NoError =>
          Succeeded /\ ~Failed /\ Outputs = NormalPathOutputs

C11_Witness ==
    /\ raw.buildTarget = "" /\ RawBuildMode /\ raw.artifactName = "" /\ Succeeded
    /\ Outputs = <<SetOutput("kernel-path", "kernel-output"),
                   SetOutput("artifact-name", "kernel")>>

(* C12: the installer is invoked at most once, with a configuration that  *)
(* holds exactly one sandbox directive: 'sandbox = relaxed', 'sandbox =     *)
(* true' or 'sandbox = false' for these three modes, and                    *)
(* 'sandbox-fallback = false' for 'fallback', for an empty input and for    *)
(* every other value; a non-empty extra configuration comes last.           *)
ExpectedSandboxDirective ==
    IF raw.sandboxMode \in {"relaxed", "true", "false"}
    THEN "sandbox = " \o raw.sandboxMode
    ELSE "sandbox-fallback = false"

ExpectedInstallerConf ==
    "max-jobs = " \o (IF raw.nixMaxJobs = "" THEN "4" ELSE raw.nixMaxJobs) \o "\n"
        \o "cores = " \o (IF raw.nixCores = "" THEN "12" ELSE raw.nixCores) \o "\n"
        \o ExpectedSandboxDirective \o "\n"
        \o "experimental-features = nix-command flakes\n"
        \o "trusted-users = root runner"
        \o (IF raw.extraNixConf = "" THEN "" ELSE "\n" \o raw.extraNixConf)

IsInstaller(e) == e.kind = "exec" /\ e.name = "sh"

C12_SandboxDirective ==
    /\ Cardinality({i \in Indices : IsInstaller(trace[i])}) <= 1
    /\ pc = "sh" => Occurs(IsInstaller)
    /\ \A i \in Indices :
          IsInstaller(trace[i]) =>
              trace[i].args = <<"/tmp/nix-installer.sh", "install", "--no-confirm",
                                "--extra-conf", ExpectedInstallerConf>>

C12_Witness ==
    /\ pc = "sh" /\ Occurs(IsInstaller)
    /\ raw.sandboxMode = "strict" /\ raw.extraNixConf # ""

(* C13: once getInputs has returned, verbose and upload-artifact are true   *)
(* unless the raw value is exactly 'false', publish is true only if the raw *)
(* value is exactly 'true', and every string field holds its literal        *)
(* default when the raw input is empty and the raw input otherwise.         *)
StringDefaults ==
    [kernelPath |-> ".", buildTarget |-> "ci", nixCommand |-> "build",
     artifactName |-> "kernel", cachixName |-> "huggingface",
     cachixAuthToken |-> "", nixMaxJobs |-> "4", nixCores |-> "12",
     sandboxMode |-> "fallback", extraNixConf |-> "", hfToken |-> "", hfRepo |-> ""]

InputsResolved == pc # "start" /\ error = NoError

C13_InputResolution ==
    /\ InputsResolved =>
          /\ inputs.verbose <=> raw.verbose # "false"
          /\ inputs.uploadArtifact <=> raw.uploadArtifact # "false"
          /\ inputs.publish <=> raw.publish = "true"
          /\ \A f \in DOMAIN StringDefaults :
                inputs[f] = IF raw[f] = "" THEN StringDefaults[f] ELSE raw[f]
    /\ pc # "start" /\ ~RawModeInvalid => InputsResolved

C13_Witness ==
    /\ InputsResolved
    /\ raw.publish = "True" /\ ~inputs.publish
    /\ raw.verbose = "0" /\ inputs.verbose
    /\ raw.uploadArtifact = "false" /\ ~inputs.uploadArtifact

(* C14: the external invocations of a run occur in the fixed stage order   *)
(* (installer download, installer, cachix install, authtoken, use, build    *)
(* tool, then either the manual upload or copy, artifact upload, hub        *)
(* publish), each at most in its place; the only invocation running is the  *)
(* one run() awaits, so no two run at once; and the build tool or a later   *)
(* stage is invoked only after the installer group and the cache group have *)
(* both been completed.                                                     *)
StageRank(e) ==
    CASE e.name = "curl" -> 1
      [] e.name = "sh" -> 2
      [] e.name = "nix-env" -> 3
      [] e.name = "cachix" /\ e.args[1] = "authtoken" -> 4
      [] e.name = "cachix" /\ e.args[1] = "use" -> 5
      [] IsBuildTool(e) -> 6
      [] IsManualUpload(e) -> 7
      [] e.name = "cp" -> 7
      [] e.name = "glob.create" -> 8
      [] e.name = "globber.glob" -> 9
      [] e.name = "uploadArtifact" -> 10
      [] e.name = "pip" -> 11
      [] e.name = "python" -> 12

GroupsEndedBefore(i) == Cardinality({j \in 1..(i - 1) : trace[j] = EndGroup})

C14_StageOrderNoOverlap ==
    /\ Cardinality(running) <= 1
    /\ running = IF pc \in {"start", "done"} THEN {} ELSE {Len(trace)}
    /\ \A i \in running : IsInvocation(trace[i])
    /\ \A i, j \in 1..Len(Invocations) :
          i < j => StageRank(Invocations[i]) < StageRank(Invocations[j])
    /\ \A k \in 1..Len(Invocations) :
          /\ k = 1 => StageRank(Invocations[k]) = 1
          /\ k = 2 => StageRank(Invocations[k]) = 2
          /\ StageRank(Invocations[k]) >= 6 =>
                k > 3 /\ StageRank(Invocations[k - 1]) >= 5
    /\ \A i \in Indices :
          IsInvocation(trace[i]) /\ StageRank(trace[i]) >= 6 =>
              /\ GroupsEndedBefore(i) >= 2
              /\ \E j \in 1..(i - 1) : trace[j] = AddPath("/nix/var/nix/profiles/default/bin")

C14_Witness ==
    /\ Succeeded /\ Occurs(IsArtifactUpload) /\ Occurs(IsHubPublish)
    /\ Len(Invocations) = 12

(* C15: the artifact upload and the hub publish are invoked only after the *)
(* copy has returned; after the copy the artifact upload is invoked iff     *)
(* upload-artifact is enabled; once the artifact upload is out of the way   *)
(* (disabled, or returned) the hub publish is invoked iff publish is        *)
(* enabled and hf-token and hf-repo are non-empty, whatever upload-artifact *)
(* is; when both run, the artifact upload comes first.                      *)
RawUploadEnabled == raw.uploadArtifact # "false"
RawPublishComplete == raw.publish = "true" /\ raw.hfToken # "" /\ raw.hfRepo # ""
CopyReturned == kernelOutputPath # Undefined
ArtifactUploadReturned ==
    /\ \E i \in Indices : trace[i].kind = "call" /\ trace[i].name = "uploadArtifact"
    /\ pc # "uploadArtifact"
    /\ ~(error # NoError /\ IsArtifactUpload(LastInvocation))

C15_DistributionGating ==
    /\ \A i \in Indices :
          IsArtifactUpload(trace[i]) \/ IsHubPublish(trace[i]) =>
              CopyReturned /\ \E j \in 1..(i - 1) : IsCopy(trace[j])
    /\ CopyReturned => (Occurs(IsArtifactUpload) <=> RawUploadEnabled)
    /\ Occurs(IsHubPublish) => RawPublishComplete
    /\ CopyReturned /\ (~RawUploadEnabled \/ ArtifactUploadReturned) =>
          (Occurs(IsHubPublish) <=> RawPublishComplete)
    /\ \A i, j \in Indices :
          IsArtifactUpload(trace[i]) /\ IsHubPublish(trace[j]) => i < j

C15_Witness ==
    /\ Succeeded /\ Occurs(IsHubPublish) /\ RawPublishComplete
    /\ ~RawUploadEnabled /\ ~Occurs(IsArtifactUpload)

(* C16: no collaborator step is invoked twice in a run, and after a failure *)
(* nothing is invoked any more: the failure signal directly follows the     *)
(* invocation that failed and ends the run.                                 *)
StepOf(e) ==
    <<e.name,
      IF e.name = "cachix" THEN e.args[1]
      ELSE IF IsManualUpload(e) THEN "upload"
      ELSE "">>

C16_NoRetry ==
    /\ \A i, j \in 1..Len(Invocations) :
          i # j => StepOf(Invocations[i]) # StepOf(Invocations[j])
    /\ Failed =>
          /\ pc = "done" /\ running = {}
          /\ trace[Len(trace)].kind = "setFailed"
          /\ \A i \in 1..(Len(trace) - 1) : trace[i].kind # "setFailed"
          /\ Len(trace) > 1 => IsInvocation(trace[Len(trace) - 1])

C16_Witness ==
    /\ Failed /\ error.isError /\ Len(Invocations) = 5
    /\ StepOf(LastInvocation) = <<"cachix", "use">>
    /\ StepOf(Invocations[4]) = <<"cachix", "authtoken">>

(* C17: the entries added to the search path only grow, in the order of    *)
(* their addition; the Nix profile directory is added directly after the    *)
(* installer has returned and before every nix-env and nix invocation; the  *)
(* user profile directory is added directly after the cachix installation   *)
(* has returned and before every cachix invocation; a run whose installer   *)
(* has not succeeded has added nothing.                                     *)
PathEntries == SelectSeq(trace, LAMBDA e : e.kind = "addPath")

IsPrefix(s, t) == Len(s) <= Len(t) /\ SubSeq(t, 1, Len(s)) = s

NixProfileEntry == AddPath("/nix/var/nix/profiles/default/bin")
UserProfileEntry == AddPath("$HOME/.nix-profile/bin")

SearchPathOrdered ==
    /\ PathEntries \in {<<>>, <<NixProfileEntry>>, <<NixProfileEntry, UserProfileEntry>>}
    /\ \A i \in Indices :
          /\ trace[i] = NixProfileEntry => i > 1 /\ IsInstaller(trace[i - 1])
          /\ trace[i] = UserProfileEntry =>
                /\ i > 1 /\ trace[i - 1].kind = "exec" /\ trace[i - 1].name = "nix-env"
                /\ inputs.cachixName # ""
          /\ trace[i].kind = "exec" /\ trace[i].name \in {"nix-env", "nix"} =>
                \E j \in 1..(i - 1) : trace[j] = NixProfileEntry
          /\ trace[i].kind = "exec" /\ trace[i].name = "cachix" =>
                \E j \in 1..(i - 1) : trace[j] = UserProfileEntry
    /\ Len(Invocations) <= 2 => PathEntries = <<>>

C17_SearchPathAppendOnly ==
    /\ []SearchPathOrdered
    /\ [][IsPrefix(PathEntries, PathEntries')]_vars

C17_Witness ==
    /\ PathEntries = <<NixProfileEntry, UserProfileEntry>>
    /\ Succeeded /\ raw.cachixName = "mycache"

(* C18: with a non-empty cache name the cachix client is installed first,  *)
(* 'cachix authtoken' follows iff the auth token is non-empty, 'cachix use  *)
(* <name>' comes last and only directly after the step before it has        *)
(* returned; the build tool is invoked only directly after 'cachix use' has *)
(* returned, so a failure of any of the three steps ends the run without a  *)
(* build.                                                                   *)
IsCachixInstall(e) == e.kind = "exec" /\ e.name = "nix-env"
IsCachixAuth(e) == e.kind = "exec" /\ e.name = "cachix" /\ e.args[1] = "authtoken"
IsCachixUse(e) == e.kind = "exec" /\ e.name = "cachix" /\ e.args[1] = "use"

C18_CacheSetupProtocol ==
    /\ \A k \in 1..Len(Invocations) :
          LET e == Invocations[k]
          IN  /\ IsCachixInstall(e) => k = 3 /\ inputs.cachixName # ""
              /\ IsCachixAuth(e) =>
                    /\ raw.cachixAuthToken # ""
                    /\ e.args = <<"authtoken", raw.cachixAuthToken>>
                    /\ IsCachixInstall(Invocations[k - 1])
              /\ IsCachixUse(e) =>
                    /\ e.args = <<"use", inputs.cachixName>>
                    /\ inputs.cachixName # ""
                    /\ IF raw.cachixAuthToken # ""
                       THEN IsCachixAuth(Invocations[k - 1])
                       ELSE IsCachixInstall(Invocations[k - 1])
              /\ IsBuildTool(e) => k > 1 /\ IsCachixUse(Invocations[k - 1])
    /\ Failed /\ Len(Invocations) > 0 /\ IsCacheSetup(LastInvocation) =>
          pc = "done" /\ ~Occurs(IsBuildTool) /\ ~Succeeded
    /\ inputs.cachixName # "" /\ pc \notin {"start", "curl", "sh", "done"} =>
          Occurs(IsCachixInstall)

C18_Witness ==
    /\ Failed /\ raw.cachixAuthToken # "" /\ Len(Invocations) = 4
    /\ IsCachixAuth(LastInvocation) /\ ~Occurs(IsCachixUse)

(* C19: when every invocation eventually returns, every run terminates;    *)
(* a terminated run has issued exactly one final signal, the success        *)
(* message or setFailed; no run issues more than one, the signal is the     *)
(* last effect of the run, and nothing is invoked or output after it.       *)
IsFinalSignal(e) == e = Info(SuccessMessage) \/ e.kind = "setFailed"
FinalSignals == {i \in Indices : IsFinalSignal(trace[i])}

OneFinalSignal ==
    /\ Cardinality(FinalSignals) <= 1
    /\ ~(Succeeded /\ Failed)
    /\ Finished => Cardinality(FinalSignals) = 1
    /\ FinalSignals # {} => Finished /\ FinalSignals = {Len(trace)} /\ running = {}

C19_ExactlyOneFinalSignal ==
    /\ <>Finished
    /\ []OneFinalSignal
    /\ [][FinalSignals # {} => trace' = trace]_vars

C19_Witness ==
    /\ Finished /\ Succeeded /\ trace[Len(trace)] = Info(SuccessMessage)
    /\ Occurs(IsPublishWarning)

(* C20: at most one log group is open at any time: a group is started only *)
(* when none is open and ended only when one is; every external invocation  *)
(* happens inside an open group; in a run that ends in success every group  *)
(* that was started has been ended before the success message.              *)
GroupStarts(i) == Cardinality({j \in 1..i : trace[j].kind = "startGroup"})
GroupEnds(i) == Cardinality({j \in 1..i : trace[j].kind = "endGroup"})
OpenGroups(i) == GroupStarts(i) - GroupEnds(i)

C20_GroupsWellNested ==
    /\ \A i \in 0..Len(trace) : OpenGroups(i) \in {0, 1}
    /\ \A i \in Indices :
          /\ trace[i].kind = "startGroup" => OpenGroups(i - 1) = 0
          /\ trace[i].kind = "endGroup" => OpenGroups(i - 1) = 1
          /\ IsInvocation(trace[i]) => OpenGroups(i) = 1
          /\ trace[i] = Info(SuccessMessage) => OpenGroups(i) = 0
    /\ Succeeded => GroupStarts(Len(trace)) = GroupEnds(Len(trace))

C20_Witness ==
    /\ Succeeded /\ RawManualUpload
    /\ GroupStarts(Len(trace)) = 4 /\ GroupEnds(Len(trace)) = 4

====
